---- MODULE Spec2Model ----
(***************************************************************************)
(* A model of the short-video generator's asset pipeline.                  *)
(*                                                                         *)
(* App (src/unnamed/part_003) asks for a script, assigns scene ids, lets   *)
(* the user edit the script and mounts AssetGenerator                      *)
(* (src/components/AssetGenerator.tsx), whose generateAssets runs two      *)
(* batched, retrying loops (audioLoop, imageLoop) over the shared scene    *)
(* array `results`, saves progress through the safeSave gate to the        *)
(* project store (src/unnamed/part_000, saveCurrentProject), makes a final *)
(* save and hands the scene list to onComplete.                            *)
(*                                                                         *)
(* JavaScript runs every continuation to completion, so one action is one  *)
(* continuation: the code from one await (or timer, or event) up to the    *)
(* next.  Arrays are functions over 0..N-1, as in the source, where a      *)
(* scene's array position is what its id is compared with.  An optional    *)
(* field is << >> when undefined and <<v>> when it holds v.                *)
(***************************************************************************)
EXTENDS Integers, Sequences, FiniteSets, TLC

\* ------------------------------------------------------------- bounds
\* The largest number of scenes of a script, in the specifications that leave
\* the project store silent.
MaxScenes == 4
\* The largest number of scenes of a script, in the specifications where the
\* project store answers.
MaxSavedScenes == 2
\* The largest number of failed attempts (remote call, fetch or decode) the
\* environment inflicts on one generation run, where it is bounded.
MaxFailures == 3
\* The largest number of edits the user makes in one script review.
MaxEdits == 1
\* failed attempts in a run that follows a script review
MaxReviewedFailures == 1

\* The longest narration given to the speech operation, in characters.
MaxTextLen == 3
\* The longest response of the script model, in tokens.
MaxResponseLen == 5

\* The largest number of scenes of a script, in the specification in which no
\* attempt fails.
MaxBatchedScenes == 7

\* The largest retry budget retryOperation is called with, where it is called
\* on its own.
MaxRetries == 3

\* The largest number of scenes of a script, in the specifications that follow
\* a whole session.
MaxSessionScenes == 1
\* The largest number of scenes of a project stored by an earlier session.
MaxStoredScenes == 2
\* The largest number of times the effect of one mounted AssetGenerator runs.
MaxEffectRuns == 3

\* The largest number of fade timers of the player pending at a time.
MaxPendingAdvances == 2

\* ------------------------------------------------- program constants
BATCH_SIZE == 3
AUDIO_RETRIES == 2
IMAGE_RETRIES == 2

\* ------------------------------------------------------------- values
Unset == << >>
Some(v) == <<v>>
IsSet(x) == x # << >>

Pipelines == {"audio", "image"}
Texts == {"t0", "t1"}
EditableFields == {"visual_description", "narration"}

\* What the speech service returns for the a-th attempt on scene i, what the
\* image service returns, and the buffer decodeAudioData makes of speech data.
\* Every request gets an answer of its own, so that a value in the wrong place
\* shows.
SpeechOf(i, a) == <<"speech", i, a>>
ImageOf(i, a) == <<"image", i, a>>
DecodeAudio(b64) == [duration |-> 1 + ((b64[2] + b64[3]) % 3), samples |-> b64]

Indices(a) == DOMAIN a
Length(a) == Cardinality(DOMAIN a)

VARIABLES
  \* App
  appState, topic, script, completedScenes, error, edits,
  \* AssetGenerator: generateAssets
  hasRun, mainPc, results, loops, ops, imgCount, audioCount,
  \* safeSave and the store
  isSaving, pendingSave, saveTimers, incInit, finalSave, putQueue, store,
  \* history: what the gate was asked and what it did
  gateLog,
  \* the generation client: its credential and whether a remote request was
  \* issued; and the latest text it was applied to
  client, call,
  \* App's loadCached and handleRestart: where each stands; and how often
  \* AssetGenerator's effect has run
  load, restart, effectRuns,
  \* Player: its scene index, its finished flag and its pending fade timers
  player

appVars == <<appState, topic, script, completedScenes, error, edits>>
genVars == <<hasRun, mainPc, results, loops, ops, imgCount, audioCount>>
gateVars == <<isSaving, pendingSave, saveTimers, incInit>>
storeVars == <<finalSave, putQueue, store>>
clientVars == <<client, call>>
sessionVars == <<load, restart, effectRuns, player>>
vars == <<appVars, genVars, gateVars, storeVars, gateLog, clientVars, sessionVars>>

\* ------------------------------------------------------------- App
\* A scene of the model's response: the four fields of StoryboardResponse, and
\* whatever else the model put in the JSON object, here possibly an id.
RawScenes ==
  [visual_description : {"t0"}, narration : {"t0"}, durationInSeconds : {5},
   id : {Unset, Some(7)}]

\* A mapping that spreads the response's scene over the index:
\* ({id: i, ...s}).
AssignIdsUnderSpread(scenes) ==
  [i \in Indices(scenes) |->
     [id |-> IF IsSet(scenes[i].id) THEN scenes[i].id[1] ELSE i,
      visual_description |-> scenes[i].visual_description,
      narration |-> scenes[i].narration,
      durationInSeconds |-> scenes[i].durationInSeconds,
      imageData |-> Unset, audioBuffer |-> Unset, audioData |-> Unset,
      actualDuration |-> Unset]]

\* response.scenes.map((s, i) => ({...s, id: i}))
AssignIds(scenes) ==
  [i \in Indices(scenes) |->
     [id |-> i,
      visual_description |-> scenes[i].visual_description,
      narration |-> scenes[i].narration,
      durationInSeconds |-> scenes[i].durationInSeconds,
      imageData |-> Unset, audioBuffer |-> Unset, audioData |-> Unset,
      actualDuration |-> Unset]]

\* A client built whether or not a credential is configured.
getClientUnchecked(apiKey) == "client"

\* getClient: without a credential it throws, otherwise it builds the client.
getClient(apiKey) == IF apiKey THEN "client" ELSE "API Key is missing"

\* No text has been given to the client yet.
NoCall == [op |-> "none", input |-> << >>, output |-> << >>]

\* loadCached has run to its end and found no stored project.
NothingCached == [pc |-> "done", cached |-> Unset]

\* Player as it mounts: useState(0), useState(false), no timer pending.
PlayerMounted == [currentIndex |-> 0, isFinished |-> FALSE, timeouts |-> << >>]

\* topic.trim() is empty
Blank(t) == t \in {"", " "}

Init ==
  /\ appState = "IDLE"
  /\ topic \in {"", "topic"}
  /\ script = << >>
  /\ completedScenes = << >>
  /\ error = Unset
  /\ edits = 0
  /\ hasRun = FALSE
  /\ mainPc = "unmounted"
  /\ results = << >>
  /\ loops = [p \in Pipelines |-> [pc |-> "idle", i |-> 0]]
  /\ ops = [p \in Pipelines |-> << >>]
  /\ imgCount = 0
  /\ audioCount = 0
  /\ isSaving = FALSE
  /\ pendingSave = FALSE
  /\ saveTimers = 0
  /\ incInit = 0
  /\ finalSave = "none"
  /\ putQueue = << >>
  /\ store = Unset
  /\ gateLog = [calls |-> 0, during |-> 0, late |-> FALSE]
  /\ client = [apiKey |-> TRUE, requested |-> FALSE]
  /\ call = NoCall
  /\ load = NothingCached
  /\ restart = "none"
  /\ effectRuns = 0
  /\ player = PlayerMounted

\* The application as it starts, with or without a credential configured.
InitAnyCredential ==
  /\ appState = "IDLE"
  /\ topic \in {"", "topic"}
  /\ script = << >>
  /\ completedScenes = << >>
  /\ error = Unset
  /\ edits = 0
  /\ hasRun = FALSE
  /\ mainPc = "unmounted"
  /\ results = << >>
  /\ loops = [p \in Pipelines |-> [pc |-> "idle", i |-> 0]]
  /\ ops = [p \in Pipelines |-> << >>]
  /\ imgCount = 0
  /\ audioCount = 0
  /\ isSaving = FALSE
  /\ pendingSave = FALSE
  /\ saveTimers = 0
  /\ incInit = 0
  /\ finalSave = "none"
  /\ putQueue = << >>
  /\ store = Unset
  /\ gateLog = [calls |-> 0, during |-> 0, late |-> FALSE]
  /\ client \in [apiKey : BOOLEAN, requested : {FALSE}]
  /\ call = NoCall
  /\ load = NothingCached
  /\ restart = "none"
  /\ effectRuns = 0
  /\ player = PlayerMounted

\* startProduction with an empty topic: the error is shown, nothing starts.
StartProductionNoTopic ==
  /\ appState = "IDLE"
  /\ Blank(topic)
  /\ error' = Some("no topic")
  /\ UNCHANGED <<appState, topic, script, completedScenes, edits>>
  /\ UNCHANGED <<genVars, gateVars, storeVars>>
  /\ UNCHANGED gateLog
  /\ UNCHANGED clientVars
  /\ UNCHANGED sessionVars

\* startProduction up to its await of generateScript, which builds its client
\* and, with one, sends the request.
StartProduction ==
  /\ appState = "IDLE"
  /\ ~Blank(topic)
  /\ error' = Unset
  /\ appState' = "GENERATING_SCRIPT"
  /\ client' = [client EXCEPT !.requested = @ \/ getClient(client.apiKey) = "client"]
  /\ UNCHANGED call
  /\ UNCHANGED sessionVars
  /\ UNCHANGED <<topic, script, completedScenes, edits>>
  /\ UNCHANGED <<genVars, gateVars, storeVars>>
  /\ UNCHANGED gateLog

\* generateScript resolved: ids are assigned and the review starts.
ScriptReceived(maxScenes) ==
  /\ appState = "GENERATING_SCRIPT"
  /\ getClient(client.apiKey) = "client"
  /\ \E n \in 0..maxScenes : \E raw \in [0..(n - 1) -> RawScenes] :
       script' = AssignIds(raw)
  /\ appState' = "REVIEW_SCRIPT"
  /\ UNCHANGED <<topic, completedScenes, error, edits>>
  /\ UNCHANGED <<genVars, gateVars, storeVars>>
  /\ UNCHANGED gateLog
  /\ UNCHANGED clientVars
  /\ UNCHANGED sessionVars

\* generateScript rejected: getClient threw, the request failed or the
\* response was malformed; the message is shown.
ScriptFailed ==
  /\ appState = "GENERATING_SCRIPT"
  /\ error' = IF getClient(client.apiKey) = "client"
                THEN Some("script failed")
                ELSE Some(getClient(client.apiKey))
  /\ appState' = "IDLE"
  /\ UNCHANGED <<topic, script, completedScenes, edits>>
  /\ UNCHANGED <<genVars, gateVars, storeVars>>
  /\ UNCHANGED gateLog
  /\ UNCHANGED clientVars
  /\ UNCHANGED sessionVars

\* newScript[index] = {...newScript[index], [field]: value}
SetField(scenes, index, field, value) ==
  [scenes EXCEPT ![index] = [scenes[index] EXCEPT ![field] = value]]

\* handleScriptChange, called by the review's two text areas.
HandleScriptChange ==
  /\ appState = "REVIEW_SCRIPT"
  /\ edits < MaxEdits
  /\ \E index \in Indices(script), field \in EditableFields, value \in Texts :
       /\ script[index][field] # value
       /\ script' = SetField(script, index, field, value)
  /\ edits' = edits + 1
  /\ UNCHANGED <<appState, topic, completedScenes, error>>
  /\ UNCHANGED <<genVars, gateVars, storeVars>>
  /\ UNCHANGED gateLog
  /\ UNCHANGED clientVars
  /\ UNCHANGED sessionVars

HandleConfirmScript ==
  /\ appState = "REVIEW_SCRIPT"
  /\ appState' = "GENERATING_ASSETS"
  /\ UNCHANGED <<topic, script, completedScenes, error, edits>>
  /\ UNCHANGED <<genVars, gateVars, storeVars>>
  /\ UNCHANGED gateLog
  /\ UNCHANGED clientVars
  /\ UNCHANGED sessionVars

\* ------------------------------------------------- the generation client
\* Texts are sequences of characters; each kind of character has some
\* representatives ("cjk" stands for a character of the CJK block the
\* pattern names, "fullstop" for the ideographic full stop).
CjkCharacters == {"cjk"}
LatinLetters == {"a", "d", "e", "i", "m", "p", "s", "u"}
Digits == {"7"}
Whitespace == {" "}
Punctuation == {",", "fullstop"}
OtherCharacters == {"#", "[", "]"}

SeqsUpTo(S, n) == UNION {[1..k -> S] : k \in 0..n}

\* The narrations the speech operation is given.
Narrations ==
  SeqsUpTo(CjkCharacters \cup {"a"} \cup Digits \cup Whitespace \cup {","}
             \cup OtherCharacters, MaxTextLen)

\* The characters the pattern's negated class leaves alone.
Whitelisted(c) ==
  c \in CjkCharacters \cup LatinLetters \cup Digits \cup Whitespace \cup Punctuation

\* A replace that keeps every character.
cleanedTextUnfiltered(text) == text

\* text.replace(/[^...]/g, ' ')
cleanedText(text) ==
  [k \in DOMAIN text |-> IF Whitelisted(text[k]) THEN text[k] ELSE " "]

\* " [medium pause]" and the full stop
PauseSuffix ==
  <<" ", "[", "m", "e", "d", "i", "u", "m", " ", "p", "a", "u", "s", "e", "]", "fullstop">>

\* cleanedText followed by the pause marker: the message sent
textWithPause(text) == cleanedText(text) \o PauseSuffix

\* generateSpeechForScene up to its request: the text is cleaned and sent.
GenerateSpeechForScene ==
  /\ call = NoCall
  /\ getClient(client.apiKey) = "client"
  /\ \E text \in Narrations :
       call' = [op |-> "speech", input |-> text, output |-> textWithPause(text)]
  /\ UNCHANGED client
  /\ UNCHANGED sessionVars
  /\ UNCHANGED <<appVars, genVars, gateVars, storeVars>>
  /\ UNCHANGED gateLog

\* The script model's responses are sequences of tokens: a brace, a member
\* of an object ("m"), a JSON value that is no object ("v"), a word of prose
\* ("p"), a blank, the opening fence with its newline and the bare fence.
ResponseTokens == {"{", "}", "m", "v", "p", " ", "fence-json", "fence"}
Responses == SeqsUpTo(ResponseTokens, MaxResponseLen)

\* text.replace of the fences (three backticks, with json or bare) by nothing
RemoveFences(text) == SelectSeq(text, LAMBDA t : t \notin {"fence-json", "fence"})

\* String.prototype.trim
RECURSIVE TrimStart(_)
TrimStart(text) ==
  IF text # << >> /\ Head(text) = " " THEN TrimStart(Tail(text)) ELSE text

RECURSIVE TrimEnd(_)
TrimEnd(text) ==
  IF text # << >> /\ text[Len(text)] = " "
    THEN TrimEnd(SubSeq(text, 1, Len(text) - 1))
    ELSE text

Trim(text) == TrimEnd(TrimStart(text))

\* indexOf and lastIndexOf, counting from 1; 0 when the token is absent
IndexOf(text, t) ==
  IF \E k \in DOMAIN text : text[k] = t
    THEN CHOOSE k \in DOMAIN text : text[k] = t /\ \A j \in 1..(k - 1) : text[j] # t
    ELSE 0

LastIndexOf(text, t) ==
  IF \E k \in DOMAIN text : text[k] = t
    THEN CHOOSE k \in DOMAIN text : text[k] = t /\ \A j \in (k + 1)..Len(text) : text[j] # t
    ELSE 0

\* The texts JSON.parse accepts, blanks apart: a value that is no object, the
\* empty object, an object with a member.
JsonObjects == {<<"{", "}">>, <<"{", "m", "}">>}
JsonTexts == {<<"v">>} \cup JsonObjects

WithoutBlanks(text) == SelectSeq(text, LAMBDA t : t # " ")

\* JSON.parse: the value (written without blanks) or a SyntaxError
JsonParse(text) ==
  IF WithoutBlanks(text) \in JsonTexts
    THEN [kind |-> "value", value |-> WithoutBlanks(text)]
    ELSE [kind |-> "error", value |-> <<"SyntaxError">>]

\* The span generateScript hands to JSON.parse.
ExtractedSpan(text) ==
  LET cleanText == Trim(RemoveFences(text))
      firstBrace == IndexOf(cleanText, "{")
      lastBrace == LastIndexOf(cleanText, "}")
  IN IF firstBrace # 0 /\ lastBrace # 0 /\ lastBrace > firstBrace
       THEN SubSeq(cleanText, firstBrace, lastBrace)
       ELSE cleanText

\* generateScript from the response text on: what it returns or throws.
generateScript(text) ==
  IF text = << >>
    THEN [kind |-> "error", value |-> <<"Empty response text">>]
    ELSE JsonParse(ExtractedSpan(text))

\* generateScript applied to a response of the model.
GenerateScriptResponse ==
  /\ call = NoCall
  /\ getClient(client.apiKey) = "client"
  /\ \E text \in Responses :
       call' = [op |-> "script", input |-> text, output |-> generateScript(text)]
  /\ UNCHANGED client
  /\ UNCHANGED sessionVars
  /\ UNCHANGED <<appVars, genVars, gateVars, storeVars>>
  /\ UNCHANGED gateLog

\* ------------------------------------------------- the save gate
\* A copy that leaves out the encoded audio as well.
SerializableWithoutAudio(scene) ==
  [f \in (DOMAIN scene) \ {"audioBuffer", "audioData"} |-> scene[f]]

\* scenes.map(({ audioBuffer, ...rest }) => rest)
Serializable(scene) == [f \in (DOMAIN scene) \ {"audioBuffer"} |-> scene[f]]

\* The object saveCurrentProject puts (its timestamp is left out).
Snapshot(scenes, t) ==
  [id |-> "current_project", topic |-> t,
   scenes |-> [i \in Indices(scenes) |-> Serializable(scenes[i])]]

\* A gate that never looks at isSaving.
safeSaveUnguarded(byScene) ==
  /\ isSaving' = TRUE
  /\ incInit' = incInit + 1
  /\ UNCHANGED pendingSave
  /\ gateLog' = [gateLog EXCEPT !.calls = @ + 1,
                                !.late = @ \/ (byScene /\ gateLog.calls > 0)]

\* safeSave up to its await: a request that meets a save in flight only marks
\* pendingSave; otherwise the gate closes and saveCurrentProject is called,
\* which awaits initDB.  incInit counts the calls that await initDB.
\* gateLog records, for a call made by a scene operation (byScene) or by the
\* timer, how often the gate called saveCurrentProject (calls), how many scene
\* operations asked while the first save was in flight (during), and whether
\* one asked at another moment after the first (late).
safeSave(byScene) ==
  IF isSaving
    THEN /\ pendingSave' = TRUE
         /\ UNCHANGED <<isSaving, incInit>>
         /\ gateLog' = IF ~byScene THEN gateLog
                       ELSE IF gateLog.calls = 1
                         THEN [gateLog EXCEPT !.during = @ + 1]
                         ELSE [gateLog EXCEPT !.late = TRUE]
    ELSE /\ isSaving' = TRUE
         /\ incInit' = incInit + 1
         /\ UNCHANGED pendingSave
         /\ gateLog' = [gateLog EXCEPT !.calls = @ + 1,
                                       !.late = @ \/ (byScene /\ gateLog.calls > 0)]

\* A finally block that arms the timer whether or not a save is pending.
safeSaveFinallyAlways ==
  /\ isSaving' = FALSE
  /\ pendingSave' = FALSE
  /\ saveTimers' = saveTimers + 1

\* safeSave's finally block.
safeSaveFinally ==
  /\ isSaving' = FALSE
  /\ pendingSave' = FALSE
  /\ saveTimers' = IF pendingSave THEN saveTimers + 1 ELSE saveTimers

\* saveCurrentProject after initDB: the scenes are copied without their
\* buffers and db.put clones the object and queues its transaction.
IncSaveSnapshot ==
  /\ incInit > 0
  /\ incInit' = incInit - 1
  /\ putQueue' = Append(putQueue, [by |-> "inc", value |-> Snapshot(results, topic)])
  /\ UNCHANGED <<isSaving, pendingSave, saveTimers, finalSave, store>>
  /\ UNCHANGED <<appVars, genVars>>
  /\ UNCHANGED gateLog
  /\ UNCHANGED clientVars
  /\ UNCHANGED sessionVars

\* Transactions on one object store commit in the order they were created.
\* The put resolves and safeSave runs its finally block.
IncPutCommit ==
  /\ putQueue # << >>
  /\ Head(putQueue).by = "inc"
  /\ store' = Some(Head(putQueue).value)
  /\ putQueue' = Tail(putQueue)
  /\ safeSaveFinally
  /\ UNCHANGED <<incInit, finalSave>>
  /\ UNCHANGED <<appVars, genVars>>
  /\ UNCHANGED gateLog
  /\ UNCHANGED clientVars
  /\ UNCHANGED sessionVars

\* initDB rejects, or the put's transaction aborts: the catch block logs and
\* the finally block runs.
IncSaveFail ==
  /\ \/ /\ incInit > 0
        /\ incInit' = incInit - 1
        /\ UNCHANGED putQueue
     \/ /\ putQueue # << >>
        /\ Head(putQueue).by = "inc"
        /\ putQueue' = Tail(putQueue)
        /\ UNCHANGED incInit
  /\ safeSaveFinally
  /\ UNCHANGED <<finalSave, store>>
  /\ UNCHANGED <<appVars, genVars>>
  /\ UNCHANGED gateLog
  /\ UNCHANGED clientVars
  /\ UNCHANGED sessionVars

\* setTimeout(safeSave, 500) fires.
SaveTimerFire ==
  /\ saveTimers > 0
  /\ saveTimers' = saveTimers - 1
  /\ safeSave(FALSE)
  /\ UNCHANGED storeVars
  /\ UNCHANGED <<appVars, genVars>>
  /\ UNCHANGED clientVars
  /\ UNCHANGED sessionVars

\* ------------------------------------------------- generateAssets
Retries(p) == IF p = "audio" THEN AUDIO_RETRIES ELSE IMAGE_RETRIES
FirstStep(p) == IF p = "audio" THEN "speech" ELSE "call"
Settled == {"ok", "fail"}
InAttempt == {"speech", "decode", "call"}
NotStarted == [pc |-> "idle", attempts |-> 0]

\* A slice that takes its end index too.
BatchIndicesInclusive(i, total) == {k \in 0..(total - 1) : i <= k /\ k <= i + BATCH_SIZE}

\* script.slice(i, i + BATCH_SIZE), as the indices actualIndex = i + index.
BatchIndices(i, total) == {k \in 0..(total - 1) : i <= k /\ k < i + BATCH_SIZE}

\* batch.map(async ...): every member runs up to its first await, the remote
\* call of its first attempt.
StartBatch(pops, p, i, total) ==
  [k \in DOMAIN pops |->
     IF k \in BatchIndices(i, total)
       THEN [pc |-> FirstStep(p), attempts |-> 1]
       ELSE pops[k]]

\* for (let i = ...; i < totalScenes; ...)
LoopAt(i, total) ==
  IF i < total THEN [pc |-> "running", i |-> i] ELSE [pc |-> "done", i |-> i]

\* A loop that goes on as soon as one member of its batch has settled.
BatchSettledAny(p) ==
  \E k \in BatchIndices(loops[p].i, Length(results)) : ops[p][k].pc \in Settled

\* A loop that goes on only when every member of its batch succeeded.
BatchSettledAllOk(p) ==
  \A k \in BatchIndices(loops[p].i, Length(results)) : ops[p][k].pc = "ok"

\* await Promise.all(batch.map(...)) resolves: every member has settled.
BatchSettled(p) ==
  \A k \in BatchIndices(loops[p].i, Length(results)) : ops[p][k].pc \in Settled

\* The attempts of one operation that have failed so far.
FailedAttempts(o) ==
  IF o.pc \in {"backoff", "fail"} THEN o.attempts
  ELSE IF o.pc = "idle" THEN 0
  ELSE o.attempts - 1

RECURSIVE SumFailed(_, _)
SumFailed(pops, S) ==
  IF S = {} THEN 0
  ELSE LET k == CHOOSE x \in S : TRUE
       IN FailedAttempts(pops[k]) + SumFailed(pops, S \ {k})

Failures == SumFailed(ops["audio"], DOMAIN ops["audio"])
            + SumFailed(ops["image"], DOMAIN ops["image"])

\* An effect that runs its body every time.
AlreadyRanNever(ref) == FALSE

\* if (hasRun.current) return
AlreadyRan(ref) == ref

\* The effect of the mounted AssetGenerator: hasRun guards it, generateAssets
\* copies the script array (the scene objects stay shared) and calls
\* audioLoop() and imageLoop(), each running up to its first await.
GenerateAssets ==
  /\ appState = "GENERATING_ASSETS"
  /\ ~AlreadyRan(hasRun)
  /\ effectRuns < MaxEffectRuns
  /\ effectRuns' = effectRuns + 1
  /\ hasRun' = TRUE
  /\ results' = script
  /\ mainPc' = "pipelines"
  /\ loops' = [p \in Pipelines |-> LoopAt(0, Length(script))]
  /\ ops' = [p \in Pipelines |->
               StartBatch([k \in Indices(script) |-> NotStarted], p, 0, Length(script))]
  /\ UNCHANGED <<imgCount, audioCount>>
  /\ UNCHANGED <<appVars, gateVars, storeVars>>
  /\ UNCHANGED gateLog
  /\ UNCHANGED clientVars
  /\ UNCHANGED <<load, restart>>
  /\ UNCHANGED player

\* One pipeline's loop after its batch settled: i += BATCH_SIZE, and the next
\* batch starts or the loop ends.
NextBatch(p) ==
  /\ mainPc = "pipelines"
  /\ loops[p].pc = "running"
  /\ BatchSettled(p)
  /\ LET i == loops[p].i + BATCH_SIZE
     IN /\ loops' = [loops EXCEPT ![p] = LoopAt(i, Length(results))]
        /\ ops' = [ops EXCEPT ![p] = StartBatch(ops[p], p, i, Length(results))]
  /\ UNCHANGED <<hasRun, mainPc, results, imgCount, audioCount>>
  /\ UNCHANGED <<appVars, gateVars, storeVars>>
  /\ UNCHANGED gateLog
  /\ UNCHANGED clientVars
  /\ UNCHANGED sessionVars

\* generateSpeechForScene resolved; decodeBase64 ran; decodeAudioData awaits.
SpeechFetched(i) ==
  /\ ops["audio"][i].pc = "speech"
  /\ getClient(client.apiKey) = "client"
  /\ ops' = [ops EXCEPT !["audio"][i].pc = "decode"]
  /\ UNCHANGED <<hasRun, mainPc, results, loops, imgCount, audioCount>>
  /\ UNCHANGED <<appVars, gateVars, storeVars>>
  /\ UNCHANGED gateLog
  /\ UNCHANGED clientVars
  /\ UNCHANGED sessionVars

\* A write that leaves actualDuration alone.
AudioWriteWithoutDuration(scenes, actualIndex, audioBase64, audioBuffer) ==
  [scenes EXCEPT ![actualIndex] =
     [@ EXCEPT !.audioBuffer = Some(audioBuffer),
               !.audioData = Some(audioBase64)]]

\* A write at the position within the batch.
ImageWriteAtBatchIndex(scenes, actualIndex, imageData) ==
  [scenes EXCEPT ![actualIndex % BATCH_SIZE] = [@ EXCEPT !.imageData = Some(imageData)]]

\* results[actualIndex].audioBuffer = ...; .actualDuration = ...; .audioData = ...
AudioWrite(scenes, actualIndex, audioBase64, audioBuffer) ==
  [scenes EXCEPT ![actualIndex] =
     [@ EXCEPT !.audioBuffer = Some(audioBuffer),
               !.actualDuration = Some(audioBuffer.duration),
               !.audioData = Some(audioBase64)]]

\* A write at the batch's first index, i in place of actualIndex.
ImageWriteAtBatchStart(scenes, actualIndex, imageData) ==
  [scenes EXCEPT ![actualIndex - (actualIndex % BATCH_SIZE)] =
     [@ EXCEPT !.imageData = Some(imageData)]]

\* results[actualIndex].imageData = imageData
ImageWrite(scenes, actualIndex, imageData) ==
  [scenes EXCEPT ![actualIndex] = [@ EXCEPT !.imageData = Some(imageData)]]

\* decodeAudioData resolved: the audio fields are written, a save is requested,
\* retryOperation returns and the finally block counts the scene.
AudioDecoded(i) ==
  /\ ops["audio"][i].pc = "decode"
  /\ LET audioBase64 == SpeechOf(i, ops["audio"][i].attempts)
     IN results' = AudioWrite(results, i, audioBase64, DecodeAudio(audioBase64))
  /\ script' = results'
  /\ safeSave(TRUE)
  /\ ops' = [ops EXCEPT !["audio"][i].pc = "ok"]
  /\ audioCount' = audioCount + 1
  /\ UNCHANGED <<hasRun, mainPc, loops, imgCount, saveTimers>>
  /\ UNCHANGED <<appState, topic, completedScenes, error, edits>>
  /\ UNCHANGED storeVars
  /\ UNCHANGED clientVars
  /\ UNCHANGED sessionVars

\* generateImageForScene resolved with image data.
ImageFetched(i) ==
  /\ ops["image"][i].pc = "call"
  /\ getClient(client.apiKey) = "client"
  /\ results' = ImageWrite(results, i, ImageOf(i, ops["image"][i].attempts))
  /\ script' = results'
  /\ safeSave(TRUE)
  /\ ops' = [ops EXCEPT !["image"][i].pc = "ok"]
  /\ imgCount' = imgCount + 1
  /\ UNCHANGED <<hasRun, mainPc, loops, audioCount, saveTimers>>
  /\ UNCHANGED <<appState, topic, completedScenes, error, edits>>
  /\ UNCHANGED storeVars
  /\ UNCHANGED clientVars
  /\ UNCHANGED sessionVars

\* A catch block that gives up one attempt early.
retryOperationOnceLess(p, o) ==
  IF Retries(p) - o.attempts <= 0
    THEN [o EXCEPT !.pc = "fail"]
    ELSE [o EXCEPT !.pc = "backoff"]

\* retryOperation's catch block for an operation whose attempt just failed:
\* with no retries left the error is rethrown, otherwise the delay is awaited.
retryOperation(p, o) ==
  IF Retries(p) - (o.attempts - 1) <= 0
    THEN [o EXCEPT !.pc = "fail"]
    ELSE [o EXCEPT !.pc = "backoff"]

\* An attempt rejects (the remote call, the fetch, the decode, or empty image
\* data).  A rethrown error reaches the scene's catch, and finally counts it.
AttemptFailed(p, i) ==
  /\ ops[p][i].pc \in InAttempt
  /\ ops' = [ops EXCEPT ![p][i] = retryOperation(p, ops[p][i])]
  /\ audioCount' = IF p = "audio" /\ ops'[p][i].pc = "fail"
                     THEN audioCount + 1 ELSE audioCount
  /\ imgCount' = IF p = "image" /\ ops'[p][i].pc = "fail"
                   THEN imgCount + 1 ELSE imgCount
  /\ UNCHANGED <<hasRun, mainPc, results, loops>>
  /\ UNCHANGED <<appVars, gateVars, storeVars>>
  /\ UNCHANGED gateLog
  /\ UNCHANGED clientVars
  /\ UNCHANGED sessionVars

\* The backoff delay elapsed: retryOperation(fn, retries - 1, delay * 2).
BackoffElapsed(p, i) ==
  /\ ops[p][i].pc = "backoff"
  /\ ops' = [ops EXCEPT ![p][i] = [pc |-> FirstStep(p), attempts |-> @.attempts + 1]]
  /\ UNCHANGED <<hasRun, mainPc, results, loops, imgCount, audioCount>>
  /\ UNCHANGED <<appVars, gateVars, storeVars>>
  /\ UNCHANGED gateLog
  /\ UNCHANGED clientVars
  /\ UNCHANGED sessionVars

\* results.filter(r => !!r.imageData).length, and the same for audioBuffer
validImages(scenes) == Cardinality({k \in Indices(scenes) : IsSet(scenes[k].imageData)})
validAudio(scenes) == Cardinality({k \in Indices(scenes) : IsSet(scenes[k].audioBuffer)})

\* A check that stops the run when either kind of asset is missing.
NothingGeneratedOfOneKind(scenes) == validImages(scenes) = 0 \/ validAudio(scenes) = 0

\* if (validImages === 0 && validAudio === 0)
NothingGenerated(scenes) == validImages(scenes) = 0 /\ validAudio(scenes) = 0

\* await Promise.all([audioLoop(), imageLoop()]) resolved: with no asset at
\* all the run stops on the error status; otherwise the final save is called
\* directly and awaits initDB.
Validate ==
  /\ mainPc = "pipelines"
  /\ \A p \in Pipelines : loops[p].pc = "done"
  /\ IF NothingGenerated(results)
       THEN /\ mainPc' = "fatal"
            /\ UNCHANGED finalSave
       ELSE /\ mainPc' = "finalSave"
            /\ finalSave' = "initDB"
  /\ UNCHANGED <<hasRun, results, loops, ops, imgCount, audioCount>>
  /\ UNCHANGED <<putQueue, store>>
  /\ UNCHANGED <<appVars, gateVars>>
  /\ UNCHANGED gateLog
  /\ UNCHANGED clientVars
  /\ UNCHANGED sessionVars

\* The final saveCurrentProject after initDB.
FinalSaveSnapshot ==
  /\ finalSave = "initDB"
  /\ finalSave' = "put"
  /\ putQueue' = Append(putQueue, [by |-> "final", value |-> Snapshot(results, topic)])
  /\ UNCHANGED store
  /\ UNCHANGED <<appVars, genVars, gateVars>>
  /\ UNCHANGED gateLog
  /\ UNCHANGED clientVars
  /\ UNCHANGED sessionVars

\* The final put commits; generateAssets arms the 800 ms timer of onComplete.
FinalPutCommit ==
  /\ putQueue # << >>
  /\ Head(putQueue).by = "final"
  /\ store' = Some(Head(putQueue).value)
  /\ putQueue' = Tail(putQueue)
  /\ finalSave' = "saved"
  /\ mainPc' = "handoff"
  /\ UNCHANGED <<hasRun, results, loops, ops, imgCount, audioCount>>
  /\ UNCHANGED <<appVars, gateVars>>
  /\ UNCHANGED gateLog
  /\ UNCHANGED clientVars
  /\ UNCHANGED sessionVars

\* A final save whose rejection is not caught: generateAssets ends there.
FinalSaveFailUncaught ==
  /\ \/ /\ finalSave = "initDB"
        /\ UNCHANGED putQueue
     \/ /\ finalSave = "put"
        /\ Head(putQueue).by = "final"
        /\ putQueue' = Tail(putQueue)
  /\ finalSave' = "failed"
  /\ mainPc' = "fatal"
  /\ UNCHANGED store
  /\ UNCHANGED <<hasRun, results, loops, ops, imgCount, audioCount>>
  /\ UNCHANGED <<appVars, gateVars>>
  /\ UNCHANGED gateLog
  /\ UNCHANGED clientVars
  /\ UNCHANGED sessionVars

\* The final save rejects: the catch block logs it and the run goes on.
FinalSaveFail ==
  /\ \/ /\ finalSave = "initDB"
        /\ UNCHANGED putQueue
     \/ /\ finalSave = "put"
        /\ Head(putQueue).by = "final"
        /\ putQueue' = Tail(putQueue)
  /\ finalSave' = "failed"
  /\ mainPc' = "handoff"
  /\ UNCHANGED store
  /\ UNCHANGED <<hasRun, results, loops, ops, imgCount, audioCount>>
  /\ UNCHANGED <<appVars, gateVars>>
  /\ UNCHANGED gateLog
  /\ UNCHANGED clientVars
  /\ UNCHANGED sessionVars

\* The 800 ms timer fires: onComplete(results) is App's handleAssetsComplete.
OnComplete ==
  /\ mainPc = "handoff"
  /\ mainPc' = "complete"
  /\ completedScenes' = results
  /\ appState' = "PLAYING"
  /\ UNCHANGED <<topic, script, error, edits>>
  /\ UNCHANGED <<hasRun, results, loops, ops, imgCount, audioCount>>
  /\ UNCHANGED <<gateVars, storeVars>>
  /\ UNCHANGED gateLog
  /\ UNCHANGED clientVars
  /\ UNCHANGED sessionVars

\* The effect fires again (a dependency changed, onComplete being a new
\* function on every render of App): hasRun.current is set and it returns.
EffectRefires ==
  /\ appState = "GENERATING_ASSETS"
  /\ AlreadyRan(hasRun)
  /\ effectRuns < MaxEffectRuns
  /\ effectRuns' = effectRuns + 1
  /\ UNCHANGED <<load, restart>>
  /\ UNCHANGED player
  /\ UNCHANGED <<appVars, genVars, gateVars, storeVars>>
  /\ UNCHANGED gateLog
  /\ UNCHANGED clientVars

\* ------------------------------------------------- loadCached and handleRestart
\* A scene list as an earlier session's run left it: every scene has its
\* image, the scenes of A have their audio as well.
EarlierRun(n, A) ==
  [i \in 0..(n - 1) |->
     [id |-> i, visual_description |-> "t0", narration |-> "t0", durationInSeconds |-> 5,
      imageData |-> Some(ImageOf(i, 1)),
      audioBuffer |-> IF i \in A THEN Some(DecodeAudio(SpeechOf(i, 1))) ELSE Unset,
      audioData |-> IF i \in A THEN Some(SpeechOf(i, 1)) ELSE Unset,
      actualDuration |-> IF i \in A THEN Some(DecodeAudio(SpeechOf(i, 1)).duration) ELSE Unset]]

\* What the store may hold when the application starts: nothing, or the
\* project an earlier session saved.
StoredProjects ==
  {Unset} \cup
  {Some(Snapshot(EarlierRun(n, A), "topic")) : n \in 1..MaxStoredScenes, A \in SUBSET {0}}

\* The application as it is mounted: loadCached has been called and awaits
\* initDB.
InitSession ==
  /\ appState = "IDLE"
  /\ topic \in {"", "topic"}
  /\ script = << >>
  /\ completedScenes = << >>
  /\ error = Unset
  /\ edits = 0
  /\ hasRun = FALSE
  /\ mainPc = "unmounted"
  /\ results = << >>
  /\ loops = [p \in Pipelines |-> [pc |-> "idle", i |-> 0]]
  /\ ops = [p \in Pipelines |-> << >>]
  /\ imgCount = 0
  /\ audioCount = 0
  /\ isSaving = FALSE
  /\ pendingSave = FALSE
  /\ saveTimers = 0
  /\ incInit = 0
  /\ finalSave = "none"
  /\ putQueue = << >>
  /\ store \in StoredProjects
  /\ gateLog = [calls |-> 0, during |-> 0, late |-> FALSE]
  /\ client = [apiKey |-> TRUE, requested |-> FALSE]
  /\ call = NoCall
  /\ load = [pc |-> "initDB", cached |-> Unset]
  /\ restart = "none"
  /\ effectRuns = 0
  /\ player = PlayerMounted

\* A restore that leaves the stored scenes as they are.
RestoredSceneUndecoded(s) ==
  [f \in DOMAIN s \cup {"audioBuffer"} |-> IF f = "audioBuffer" THEN Unset ELSE s[f]]

\* if (s.audioData && !s.audioBuffer) return {...s, audioBuffer: buffer};
\* return s  (a stored scene has no audioBuffer)
RestoredScene(s) ==
  [f \in DOMAIN s \cup {"audioBuffer"} |->
     IF f = "audioBuffer"
       THEN IF IsSet(s.audioData) THEN Some(DecodeAudio(s.audioData[1])) ELSE Unset
       ELSE s[f]]

\* loadCurrentProject after initDB: db.get queues its transaction.
LoadCachedOpened ==
  /\ load.pc = "initDB"
  /\ load' = [load EXCEPT !.pc = "get"]
  /\ putQueue' = Append(putQueue, [by |-> "get", value |-> << >>])
  /\ UNCHANGED <<finalSave, store>>
  /\ UNCHANGED <<restart, effectRuns>>
  /\ UNCHANGED player
  /\ UNCHANGED <<appVars, genVars, gateVars>>
  /\ UNCHANGED gateLog
  /\ UNCHANGED clientVars

\* The get resolves with what the store holds; with a project that has scenes
\* the decoding of its encoded audio starts, otherwise loadCached ends.
LoadCachedGet ==
  /\ load.pc = "get"
  /\ putQueue # << >>
  /\ Head(putQueue).by = "get"
  /\ putQueue' = Tail(putQueue)
  /\ load' = IF IsSet(store) /\ Length(store[1].scenes) > 0
               THEN [pc |-> "decode", cached |-> store]
               ELSE [pc |-> "done", cached |-> store]
  /\ UNCHANGED <<finalSave, store>>
  /\ UNCHANGED <<restart, effectRuns>>
  /\ UNCHANGED player
  /\ UNCHANGED <<appVars, genVars, gateVars>>
  /\ UNCHANGED gateLog
  /\ UNCHANGED clientVars

\* Promise.all of the decodings resolved: setTopic, setCompletedScenes and
\* setAppState('PLAYING'), whatever state the application is in.
LoadCachedRestored ==
  /\ load.pc = "decode"
  /\ load' = [load EXCEPT !.pc = "restored"]
  /\ topic' = load.cached[1].topic
  /\ completedScenes' =
       [i \in Indices(load.cached[1].scenes) |-> RestoredScene(load.cached[1].scenes[i])]
  /\ appState' = "PLAYING"
  /\ UNCHANGED <<script, error, edits>>
  /\ UNCHANGED <<restart, effectRuns>>
  /\ UNCHANGED player
  /\ UNCHANGED <<genVars, gateVars, storeVars>>
  /\ UNCHANGED gateLog
  /\ UNCHANGED clientVars

\* initDB, the get or a decoding rejects: the catch block logs it.
LoadCachedFailed ==
  /\ \/ /\ load.pc \in {"initDB", "decode"}
        /\ UNCHANGED putQueue
     \/ /\ load.pc = "get"
        /\ putQueue # << >>
        /\ Head(putQueue).by = "get"
        /\ putQueue' = Tail(putQueue)
  /\ load' = [load EXCEPT !.pc = "failed"]
  /\ UNCHANGED <<finalSave, store>>
  /\ UNCHANGED <<restart, effectRuns>>
  /\ UNCHANGED player
  /\ UNCHANGED <<appVars, genVars, gateVars>>
  /\ UNCHANGED gateLog
  /\ UNCHANGED clientVars

\* handleRestart, the player's restart button, up to its await:
\* clearCurrentProject awaits initDB.
HandleRestart ==
  /\ appState = "PLAYING"
  /\ restart = "none"
  /\ restart' = "initDB"
  /\ UNCHANGED <<load, effectRuns>>
  /\ UNCHANGED player
  /\ UNCHANGED <<appVars, genVars, gateVars, storeVars>>
  /\ UNCHANGED gateLog
  /\ UNCHANGED clientVars

\* clearCurrentProject after initDB: db.delete queues its transaction.
RestartOpened ==
  /\ restart = "initDB"
  /\ restart' = "delete"
  /\ putQueue' = Append(putQueue, [by |-> "clear", value |-> << >>])
  /\ UNCHANGED <<finalSave, store>>
  /\ UNCHANGED <<load, effectRuns>>
  /\ UNCHANGED player
  /\ UNCHANGED <<appVars, genVars, gateVars>>
  /\ UNCHANGED gateLog
  /\ UNCHANGED clientVars

\* The delete commits and handleRestart goes on: setAppState('IDLE'),
\* setScript([]), setCompletedScenes([]).
RestartCleared ==
  /\ restart = "delete"
  /\ putQueue # << >>
  /\ Head(putQueue).by = "clear"
  /\ putQueue' = Tail(putQueue)
  /\ store' = Unset
  /\ restart' = "cleared"
  /\ appState' = "IDLE"
  /\ script' = << >>
  /\ completedScenes' = << >>
  /\ UNCHANGED <<topic, error, edits>>
  /\ UNCHANGED finalSave
  /\ UNCHANGED <<load, effectRuns>>
  /\ UNCHANGED player
  /\ UNCHANGED <<genVars, gateVars>>
  /\ UNCHANGED gateLog
  /\ UNCHANGED clientVars

\* clearCurrentProject rejects: nobody catches it and handleRestart ends.
RestartFailed ==
  /\ \/ /\ restart = "initDB"
        /\ UNCHANGED putQueue
     \/ /\ restart = "delete"
        /\ putQueue # << >>
        /\ Head(putQueue).by = "clear"
        /\ putQueue' = Tail(putQueue)
  /\ restart' = "failed"
  /\ UNCHANGED <<finalSave, store>>
  /\ UNCHANGED <<load, effectRuns>>
  /\ UNCHANGED player
  /\ UNCHANGED <<appVars, genVars, gateVars>>
  /\ UNCHANGED gateLog
  /\ UNCHANGED clientVars

\* ------------------------------------------------- the export operations
\* A file of an archive, and a path of a manifest: a folder of the project
\* folder, a number and an extension; a path may start with a slash.
ArchiveFile(dir, n, ext) == [dir |-> dir, name |-> n, ext |-> ext]
ManifestPath(rooted, dir, n, ext) == [rooted |-> rooted, dir |-> dir, name |-> n, ext |-> ext]

\* exportRemotionWithAssets: for a scene with image data the file
\* images/{id+1}.png is added and imageFile set to its path; for a scene with
\* audio data the file audio/{id+1}.mp3 and audioFile; remotion-data.json
\* holds the scenes with these paths.
exportRemotionWithAssets(scenes) ==
  [files |->
     {ArchiveFile("images", scenes[i].id + 1, "png") :
        i \in {k \in DOMAIN scenes : IsSet(scenes[k].imageData)}}
     \cup {ArchiveFile("audio", scenes[i].id + 1, "mp3") :
        i \in {k \in DOMAIN scenes : IsSet(scenes[k].audioData)}},
   manifest |->
     [i \in DOMAIN scenes |->
        [imageFile |-> IF IsSet(scenes[i].imageData)
                         THEN Some(ManifestPath(TRUE, "images", scenes[i].id + 1, "png"))
                         ELSE Unset,
         audioFile |-> IF IsSet(scenes[i].audioData)
                         THEN Some(ManifestPath(TRUE, "audio", scenes[i].id + 1, "mp3"))
                         ELSE Unset]]]

\* downloadAssetsAsZip: script.json names images/{id+1}.png and
\* audio/{id+1}.wav for every scene; the files are added for the scenes that
\* have the data.
downloadAssetsAsZip(scenes) ==
  [files |->
     {ArchiveFile("images", scenes[i].id + 1, "png") :
        i \in {k \in DOMAIN scenes : IsSet(scenes[k].imageData)}}
     \cup {ArchiveFile("audio", scenes[i].id + 1, "wav") :
        i \in {k \in DOMAIN scenes : IsSet(scenes[k].audioData)}},
   manifest |->
     [i \in DOMAIN scenes |->
        [imageFile |-> Some(ManifestPath(FALSE, "images", scenes[i].id + 1, "png")),
         audioFile |-> Some(ManifestPath(FALSE, "audio", scenes[i].id + 1, "wav"))]]]

\* The player's export buttons, on the scenes it was given.
ExportRemotion ==
  /\ appState = "PLAYING"
  /\ call' = [op |-> "exportRemotionWithAssets", input |-> completedScenes,
              output |-> exportRemotionWithAssets(completedScenes)]
  /\ UNCHANGED client
  /\ UNCHANGED sessionVars
  /\ UNCHANGED <<appVars, genVars, gateVars, storeVars>>
  /\ UNCHANGED gateLog

DownloadAssets ==
  /\ appState = "PLAYING"
  /\ call' = [op |-> "downloadAssetsAsZip", input |-> completedScenes,
              output |-> downloadAssetsAsZip(completedScenes)]
  /\ UNCHANGED client
  /\ UNCHANGED sessionVars
  /\ UNCHANGED <<appVars, genVars, gateVars, storeVars>>
  /\ UNCHANGED gateLog

\* ------------------------------------------------- Player
\* The events that call handleNext: the scene's audio ended or its fallback
\* timer fired ("playback"), or the spacebar was pressed ("space").
AdvanceEvents == {"playback", "space"}

\* The body of handleNext's timeout, t.seen being the currentIndex of the
\* render whose handleNext set the timer: if (currentIndex < scenes.length - 1)
\* setCurrentIndex(prev => prev + 1) else setIsFinished(true).
NextTimeout(p, t, totalScenes) ==
  IF t.seen < totalScenes - 1
    THEN [p EXCEPT !.currentIndex = @ + 1]
    ELSE [p EXCEPT !.isFinished = TRUE]

\* handleNext up to its timer, called by the audio's onended, by the fallback
\* timer (once for a showing of a scene) or by the spacebar while the
\* playthrough has not finished.
HandleNext ==
  /\ appState = "PLAYING"
  /\ ~player.isFinished
  /\ Len(player.timeouts) < MaxPendingAdvances
  /\ \E by \in AdvanceEvents :
       /\ by = "playback" =>
            /\ player.currentIndex \in DOMAIN completedScenes
            /\ \A k \in DOMAIN player.timeouts :
                 ~(player.timeouts[k].by = "playback"
                     /\ player.timeouts[k].seen = player.currentIndex)
       /\ player' = [player EXCEPT !.timeouts =
                       Append(@, [by |-> by, seen |-> player.currentIndex])]
  /\ UNCHANGED <<load, restart, effectRuns>>
  /\ UNCHANGED <<appVars, genVars, gateVars, storeVars>>
  /\ UNCHANGED gateLog
  /\ UNCHANGED clientVars

\* A 300 ms fade timer of handleNext fires (equal delays fire in the order
\* they were set). handlePrev has no caller in the component, so no timer
\* is ever one of its.
FadeTimeout ==
  /\ appState = "PLAYING"
  /\ player.timeouts # << >>
  /\ LET t == Head(player.timeouts)
         rest == [player EXCEPT !.timeouts = Tail(@)]
     IN player' = NextTimeout(rest, t, Length(completedScenes))
  /\ UNCHANGED <<load, restart, effectRuns>>
  /\ UNCHANGED <<appVars, genVars, gateVars, storeVars>>
  /\ UNCHANGED gateLog
  /\ UNCHANGED clientVars

\* The replay button of the finished screen.
Replay ==
  /\ appState = "PLAYING"
  /\ player.isFinished
  /\ player' = [player EXCEPT !.isFinished = FALSE, !.currentIndex = 0]
  /\ UNCHANGED <<load, restart, effectRuns>>
  /\ UNCHANGED <<appVars, genVars, gateVars, storeVars>>
  /\ UNCHANGED gateLog
  /\ UNCHANGED clientVars

\* ------------------------------------------------- retryOperation on its own
\* What one invocation of fn does: it resolves with a value or rejects with
\* an error.
FnOutcomes == [ok : BOOLEAN, value : {"a", "b"}]

\* The delays retryOperation is called with, in milliseconds.
Delays == {1000, 2000}

\* A retry that waits the same delay every time.
RECURSIVE retryOperationRunFixedDelay(_, _, _, _, _)
retryOperationRunFixedDelay(outcomes, k, retries, delay, waits) ==
  IF outcomes[k].ok
    THEN [calls |-> k, waits |-> waits, kind |-> "return", value |-> outcomes[k].value]
    ELSE IF retries <= 0
           THEN [calls |-> k, waits |-> waits, kind |-> "throw", value |-> outcomes[k].value]
           ELSE retryOperationRunFixedDelay(outcomes, k + 1, retries - 1, delay,
                                            Append(waits, delay))

\* retryOperation(fn, retries, delay) where the k-th invocation of fn and the
\* following ones settle as outcomes[k], outcomes[k + 1], ...: try { return
\* await fn() } catch { if (retries <= 0) throw error; await the delay;
\* return retryOperation(fn, retries - 1, delay * 2) }.  The result tells how
\* often fn was invoked, the delays waited, and what was returned or thrown.
RECURSIVE retryOperationRun(_, _, _, _, _)
retryOperationRun(outcomes, k, retries, delay, waits) ==
  IF outcomes[k].ok
    THEN [calls |-> k, waits |-> waits, kind |-> "return", value |-> outcomes[k].value]
    ELSE IF retries <= 0
           THEN [calls |-> k, waits |-> waits, kind |-> "throw", value |-> outcomes[k].value]
           ELSE retryOperationRun(outcomes, k + 1, retries - 1, delay * 2,
                                  Append(waits, delay))

\* One call of retryOperation, on any budget, delay and behaviour of fn.
RetryOperationCall ==
  /\ call.op = "none"
  /\ \E retries \in 0..MaxRetries : \E delay \in Delays :
       \E outcomes \in [1..(retries + 1) -> FnOutcomes] :
         call' = [op |-> "retry",
                  input |-> [outcomes |-> outcomes, retries |-> retries, delay |-> delay],
                  output |-> retryOperationRun(outcomes, 1, retries, delay, << >>)]
  /\ UNCHANGED client
  /\ UNCHANGED sessionVars
  /\ UNCHANGED <<appVars, genVars, gateVars, storeVars>>
  /\ UNCHANGED gateLog

\* ------------------------------------------------- specifications
\* The environment's events are grouped, and a specification takes the groups
\* its claims depend on; every behaviour of a smaller specification is a
\* behaviour of Spec, in which every event can happen.
AppStep(maxScenes) ==
  \/ StartProductionNoTopic
  \/ StartProduction
  \/ ScriptReceived(maxScenes)
  \/ ScriptFailed
  \/ HandleConfirmScript

PipelineStep ==
  \/ GenerateAssets
  \/ \E p \in Pipelines : NextBatch(p)
  \/ \E i \in Indices(results) : SpeechFetched(i)
  \/ \E i \in Indices(results) : AudioDecoded(i)
  \/ \E i \in Indices(results) : ImageFetched(i)
  \/ Validate

\* An attempt fails, at most `limit` times in a run, and is retried.
FailureStep(limit) ==
  \/ /\ Failures < limit
     /\ \E p \in Pipelines : \E i \in Indices(results) : AttemptFailed(p, i)
  \/ \E p \in Pipelines : \E i \in Indices(results) : BackoffElapsed(p, i)

IncrementalSaveStep ==
  \/ IncSaveSnapshot
  \/ IncPutCommit
  \/ IncSaveFail
  \/ SaveTimerFire

FinalSaveStep ==
  \/ FinalSaveSnapshot
  \/ FinalPutCommit
  \/ FinalSaveFail
  \/ OnComplete

\* No attempt of one operation fails more often than retryOperation tries it.
NoLimit == 2 * MaxSavedScenes * (AUDIO_RETRIES + IMAGE_RETRIES + 2)

\* The pipelines while the store has not answered yet: the loops read neither
\* the gate nor the store.
NextPipelines ==
  \/ AppStep(MaxScenes)
  \/ PipelineStep
  \/ FailureStep(MaxFailures)

SpecPipelines == Init /\ [][NextPipelines]_vars

\* The same run, in which every remote call, fetch, decode and backoff wait
\* settles and every continuation that can run does run.
SpecSettling ==
  Init /\ [][NextPipelines]_vars /\ WF_vars(PipelineStep \/ FailureStep(MaxFailures))

\* The loops of a run in which every attempt succeeds, over longer scripts.
NextBatches ==
  \/ AppStep(MaxBatchedScenes)
  \/ PipelineStep

SpecBatches == Init /\ [][NextBatches]_vars

LoadStep ==
  \/ LoadCachedOpened
  \/ LoadCachedGet
  \/ LoadCachedRestored
  \/ LoadCachedFailed

RestartStep ==
  \/ HandleRestart
  \/ RestartOpened
  \/ RestartCleared
  \/ RestartFailed

\* A session from the mount of the application on: the stored project is
\* loaded, a run whose attempts all succeed is made and saved, and the player
\* restarts.
NextSession ==
  \/ AppStep(MaxSessionScenes)
  \/ PipelineStep
  \/ IncrementalSaveStep
  \/ FinalSaveStep
  \/ LoadStep
  \/ RestartStep

SpecSession == InitSession /\ [][NextSession]_vars

\* The same session after loadCached found nothing.
NextRestart ==
  \/ AppStep(MaxSessionScenes)
  \/ PipelineStep
  \/ IncrementalSaveStep
  \/ FinalSaveStep
  \/ RestartStep

SpecRestart == Init /\ [][NextRestart]_vars

\* A run with any failures, its handoff and the player's exports.
NextExport ==
  \/ AppStep(MaxSavedScenes)
  \/ PipelineStep
  \/ FailureStep(NoLimit)
  \/ FinalSaveStep
  \/ ExportRemotion
  \/ DownloadAssets

SpecExport == Init /\ [][NextExport]_vars

PlayerStep ==
  \/ HandleNext
  \/ FadeTimeout
  \/ Replay

\* A run whose attempts all succeed, its handoff and the playthrough.
NextPlayer ==
  \/ AppStep(MaxSavedScenes)
  \/ PipelineStep
  \/ FinalSaveStep
  \/ PlayerStep

SpecPlayer == Init /\ [][NextPlayer]_vars

\* One mount of AssetGenerator whose effect fires again and again while the
\* run goes on.
NextEffect ==
  \/ AppStep(MaxSavedScenes)
  \/ PipelineStep
  \/ FailureStep(MaxFailures)
  \/ FinalSaveStep
  \/ EffectRefires

SpecEffect == Init /\ [][NextEffect]_vars

\* retryOperation, whatever the function it is given does.
NextRetry == RetryOperationCall

SpecRetry == Init /\ [][NextRetry]_vars

\* The client's handling of texts, whatever the application does: one call
\* of one operation is observed, on any input.
NextClient ==
  \/ GenerateSpeechForScene
  \/ GenerateScriptResponse

SpecClient == Init /\ [][NextClient]_vars

\* A run whose attempts all succeed, and its saves.
NextGate ==
  \/ AppStep(MaxSavedScenes)
  \/ PipelineStep
  \/ IncrementalSaveStep
  \/ FinalSaveStep

SpecGate == Init /\ [][NextGate]_vars

\* A run and its saves.
NextSaves ==
  \/ AppStep(MaxSavedScenes)
  \/ PipelineStep
  \/ FailureStep(MaxFailures)
  \/ IncrementalSaveStep
  \/ FinalSaveStep

SpecSaves == Init /\ [][NextSaves]_vars

\* A run in which any attempt may fail, up to the handoff; the incremental
\* saves stay where safeSave left them.
NextOutcome ==
  \/ AppStep(MaxSavedScenes)
  \/ PipelineStep
  \/ FailureStep(NoLimit)
  \/ FinalSaveStep

SpecOutcome == Init /\ [][NextOutcome]_vars

\* The same run, started with or without a credential.
SpecCredential == InitAnyCredential /\ [][NextOutcome]_vars

\* A run with its script review.
Next ==
  \/ AppStep(MaxSavedScenes)
  \/ HandleScriptChange
  \/ PipelineStep
  \/ FailureStep(MaxReviewedFailures)
  \/ IncrementalSaveStep
  \/ FinalSaveStep

Spec == Init /\ [][Next]_vars

TypeOK ==
  /\ appState \in {"IDLE", "GENERATING_SCRIPT", "REVIEW_SCRIPT", "GENERATING_ASSETS", "PLAYING"}
  /\ isSaving \in BOOLEAN
  /\ pendingSave \in BOOLEAN
  /\ saveTimers \in Nat
  /\ incInit \in Nat
  /\ Len(putQueue) <= 3


\* ------------------------------------------------- batches (C1)
\* The batch of a pipeline that scene k belongs to.
BatchOf(k) == k \div BATCH_SIZE

\* C1: within one pipeline no operation of a later batch has started while an
\* operation of an earlier batch is still unsettled (running, or waiting for
\* a retry).
C1_BatchesInOrder ==
  \A p \in Pipelines : \A j \in DOMAIN ops[p] : \A k \in DOMAIN ops[p] :
    (BatchOf(j) < BatchOf(k) /\ ops[p][k].pc # "idle") => ops[p][j].pc \in Settled

\* A second batch is running after a first batch in which one operation
\* failed for good and another succeeded.
C1_Witness ==
  \E p \in Pipelines : \E j \in DOMAIN ops[p] : \E k \in DOMAIN ops[p] :
    /\ BatchOf(j) = 0 /\ BatchOf(k) = 0
    /\ ops[p][j].pc = "fail" /\ ops[p][k].pc = "ok"
    /\ \E m \in DOMAIN ops[p] : BatchOf(m) = 1 /\ ops[p][m].pc \in InAttempt

\* ------------------------------------------------- the gate (C2, C3, C5)
\* The saves the gate started that have not settled: those awaiting initDB and
\* those whose put is queued.
GateInFlight ==
  incInit + Cardinality({q \in DOMAIN putQueue : putQueue[q].by = "inc"})

\* The deferred saves: the one pendingSave marks and those whose timer is armed.
GatePending == (IF pendingSave THEN 1 ELSE 0) + saveTimers

GateIdle == ~isSaving /\ GateInFlight = 0 /\ GatePending = 0

\* C2: the gate never has two store writes in flight, and never more than one
\* save pending (marked or on its timer).
C2_SingleFlightSinglePending == GateInFlight <= 1 /\ GatePending <= 1

\* C3: when scene operations ask for a save only while the first save is in
\* flight (at least one does), the gate calls the store at most twice, and
\* once the second call has settled the gate is idle.
C3_Coalesced ==
  (gateLog.during >= 1 /\ ~gateLog.late) =>
     /\ gateLog.calls <= 2
     /\ (gateLog.calls = 2 /\ ~isSaving) => GateIdle
     /\ (gateLog.calls = 1 /\ ~isSaving) => (GatePending = 1 /\ GateInFlight = 0)

\* Two scene operations asked during the first save, nothing asked later, and
\* the deferred save has run and settled.
C3_Witness ==
  /\ gateLog.during >= 2 /\ ~gateLog.late
  /\ gateLog.calls = 2 /\ GateIdle
  /\ mainPc \in {"handoff", "complete"}

\* ------------------------------------------------- the stored project (C4)
\* C4: once the final save of a run has succeeded, the stored snapshot holds
\* the final scene list: every scene, with its image, its encoded audio and
\* its other fields, and without the decoded buffer; no staler snapshot
\* replaces it afterwards.
C4_FinalStateStored ==
  finalSave = "saved" =>
    /\ IsSet(store)
    /\ store[1].topic = topic
    /\ DOMAIN store[1].scenes = DOMAIN results
    /\ \A i \in DOMAIN results :
         /\ DOMAIN store[1].scenes[i] = (DOMAIN results[i]) \ {"audioBuffer"}
         /\ \A f \in DOMAIN store[1].scenes[i] : store[1].scenes[i][f] = results[i][f]

\* The run handed off after incremental saves and a successful final save,
\* every save has settled, and the scenes carry an image and encoded audio.
C4_Witness ==
  /\ mainPc = "complete" /\ finalSave = "saved" /\ GateIdle /\ putQueue = << >>
  /\ gateLog.calls >= 2
  /\ \E i \in DOMAIN results : IsSet(results[i].imageData)
  /\ \E i \in DOMAIN results : IsSet(results[i].audioData)

\* ------------------------------------------------- the final save (C5)
FinalInFlight == finalSave \in {"initDB", "put"}

\* C5 as the specification words it: the final save is never in flight
\* together with an incremental save, in flight or deferred.
C5_FinalSaveThroughGate ==
  ~(FinalInFlight /\ (GateInFlight > 0 \/ GatePending > 0))

\* C5: every incremental save goes through the gate, which is closed while
\* its save is in flight, so no two incremental saves are in flight together;
\* the final save is called directly, so that at most two writes, one of them
\* the final save, are in flight at a time.
C5_IncrementalThroughGate ==
  /\ GateInFlight <= 1
  /\ GateInFlight = 1 => isSaving
  /\ GateInFlight + (IF FinalInFlight THEN 1 ELSE 0) <= 2
  /\ Len(putQueue) <= 2

\* The final save and an incremental save have both queued their put.
C5_Witness ==
  /\ finalSave = "put"
  /\ Len(putQueue) = 2
  /\ GateInFlight = 1

\* ------------------------------------------------- failures (C6)
\* The fields an operation of pipeline p on scene i leaves in a scene list:
\* what its successful attempt produced, or nothing.
Produced(p, i) ==
  IF ops[p][i].pc = "ok"
    THEN IF p = "image"
           THEN [imageData |-> Some(ImageOf(i, ops[p][i].attempts))]
           ELSE LET b64 == SpeechOf(i, ops[p][i].attempts)
                IN [audioBuffer |-> Some(DecodeAudio(b64)),
                    actualDuration |-> Some(DecodeAudio(b64).duration),
                    audioData |-> Some(b64)]
    ELSE IF p = "image"
           THEN [imageData |-> Unset]
           ELSE [audioBuffer |-> Unset, actualDuration |-> Unset, audioData |-> Unset]

OtherPipeline(p) == IF p = "audio" THEN "image" ELSE "audio"

\* C6: an operation that has failed for good was attempted retries + 1 = 3
\* times, its own fields of the scene are unset, and the other pipeline's
\* fields of that scene are what the other pipeline produced.
C6_FailedAfterThreeAttempts ==
  \A p \in Pipelines : \A i \in DOMAIN ops[p] :
    /\ ops[p][i].attempts <= 3
    /\ ops[p][i].pc = "fail" =>
         /\ ops[p][i].attempts = Retries(p) + 1
         /\ ops[p][i].attempts = 3
         /\ \A f \in DOMAIN Produced(p, i) : results[i][f] = Unset
         /\ \A f \in DOMAIN Produced(OtherPipeline(p), i) :
              results[i][f] = Produced(OtherPipeline(p), i)[f]

\* A scene whose audio failed for good and whose image was produced.
C6_Witness ==
  \E i \in DOMAIN results :
    /\ ops["audio"][i].pc = "fail"
    /\ ops["image"][i].pc = "ok"
    /\ IsSet(results[i].imageData)

\* ------------------------------------------------- the handoff (C7)
AnyAsset(scenes) ==
  \E k \in DOMAIN scenes : IsSet(scenes[k].imageData) \/ IsSet(scenes[k].audioBuffer)

\* C7: once both pipelines have finished, the run goes on to the handoff
\* exactly when some scene has an image or decoded audio; with no asset it
\* stops, the player is never reached and nothing is handed over; the list
\* handed over is the whole scene list, scenes without assets included.
C7_HandoffIffAnyAsset ==
  /\ mainPc \in {"finalSave", "handoff", "complete"} => AnyAsset(results)
  /\ mainPc = "fatal" =>
       /\ ~AnyAsset(results)
       /\ appState = "GENERATING_ASSETS"
       /\ completedScenes = << >>
  /\ appState = "PLAYING" =>
       /\ mainPc = "complete"
       /\ completedScenes = results
       /\ DOMAIN completedScenes = DOMAIN script
  /\ mainPc = "complete" => appState = "PLAYING"

\* The player received a list in which one scene has no asset at all.
C7_Witness ==
  /\ appState = "PLAYING"
  /\ \E k \in DOMAIN completedScenes :
       /\ ~IsSet(completedScenes[k].imageData)
       /\ ~IsSet(completedScenes[k].audioBuffer)
       /\ ~IsSet(completedScenes[k].audioData)

\* ------------------------------------------------- the scene list (C8-C10)
ImageFields == {"imageData"}
AudioFields == {"audioBuffer", "actualDuration", "audioData"}

\* The operation of pipeline p on scene i completes in this step.
Completes(p, i) == ops[p][i].pc # "ok" /\ ops'[p][i].pc = "ok"

\* C8: while the pipelines run, a step changes a field of scene i only if it
\* is the image field and the image operation of scene i completes, or an
\* audio field and the audio operation of scene i completes; the list keeps
\* its scenes and a scene its fields.
C8_WritesOwnFields ==
  [][mainPc = "pipelines" =>
       /\ DOMAIN results' = DOMAIN results
       /\ \A i \in DOMAIN results :
            /\ DOMAIN results'[i] = DOMAIN results[i]
            /\ \A f \in DOMAIN results[i] :
                 results'[i][f] # results[i][f] =>
                   \/ f \in ImageFields /\ Completes("image", i)
                   \/ f \in AudioFields /\ Completes("audio", i)]_vars

\* In the second batch, the last scene has its image and nothing else while
\* an earlier scene has nothing yet.
C8_Witness ==
  /\ mainPc = "pipelines"
  /\ \E i \in DOMAIN results : \E j \in DOMAIN results :
       /\ j < i /\ BatchOf(i) = 1
       /\ IsSet(results[i].imageData) /\ ~IsSet(results[i].audioData)
       /\ ~IsSet(results[j].imageData) /\ ~IsSet(results[j].audioData)

SceneLists == {script, results, completedScenes}

\* C9: in every scene list, a scene has a decoded buffer exactly when it has
\* an actual duration, and the actual duration is the buffer's duration.
C9_BufferIffDuration ==
  \A scenes \in SceneLists : \A i \in DOMAIN scenes :
    /\ IsSet(scenes[i].audioBuffer) <=> IsSet(scenes[i].actualDuration)
    /\ IsSet(scenes[i].audioBuffer) =>
         scenes[i].actualDuration[1] = scenes[i].audioBuffer[1].duration

\* The list handed over has a scene whose audio succeeded on a retry.
C9_Witness ==
  /\ mainPc = "complete"
  /\ \E i \in DOMAIN completedScenes :
       /\ IsSet(completedScenes[i].audioBuffer)
       /\ ops["audio"][i].attempts >= 2

AllProcessed ==
  \A p \in Pipelines :
    /\ DOMAIN ops[p] = DOMAIN results
    /\ \A i \in DOMAIN results : ops[p][i].pc \in Settled /\ ops[p][i].attempts >= 1

\* C11: when everything awaited settles, a run that started its pipelines
\* reaches the validation with every scene processed by both pipelines,
\* whichever operations failed.
C11_ReachesValidation ==
  (mainPc = "pipelines") ~> (mainPc \in {"fatal", "finalSave"} /\ AllProcessed)

\* Validation was reached although an operation of the first batch failed for
\* good; the same pipeline's second batch and the other pipeline succeeded.
C11_Witness ==
  /\ mainPc = "finalSave" /\ AllProcessed
  /\ \E p \in Pipelines : \E j \in DOMAIN results : \E k \in DOMAIN results :
       /\ BatchOf(j) = 0 /\ BatchOf(k) = 1
       /\ ops[p][j].pc = "fail" /\ ops[p][k].pc = "ok"
       /\ ops[OtherPipeline(p)][j].pc = "ok"

\* ------------------------------------------------- failing saves (C12)
\* A step in which a save of the gate settles without writing the store:
\* initDB rejected, or the queued put was dropped.
IncrementalSaveFails ==
  \/ incInit' < incInit /\ putQueue' = putQueue
  \/ /\ putQueue # << >>
     /\ Head(putQueue).by = "inc"
     /\ putQueue' = Tail(putQueue)
     /\ store' = store

FinalSaveFails == FinalInFlight /\ finalSave' = "failed"

\* C12: a failed incremental save changes no scene and no operation or loop
\* of either pipeline, and leaves the gate open, with the deferred save armed
\* when one was pending; a failed final save arms the handoff, and a run whose
\* final save failed is on its way to the player or there.
C12_FailedSaveAbortsNothing ==
  [][/\ IncrementalSaveFails =>
          /\ results' = results /\ script' = script
          /\ ops' = ops /\ loops' = loops /\ mainPc' = mainPc
          /\ ~isSaving' /\ ~pendingSave'
          /\ saveTimers' = saveTimers + (IF pendingSave THEN 1 ELSE 0)
     /\ FinalSaveFails =>
          /\ results' = results
          /\ mainPc' = "handoff"
     /\ finalSave' = "failed" => mainPc' \in {"handoff", "complete"}]_vars

\* The player was reached with an empty store: the gate's saves (two or more)
\* and the final save all failed.
C12_Witness ==
  /\ mainPc = "complete" /\ appState = "PLAYING"
  /\ finalSave = "failed"
  /\ gateLog.calls >= 2 /\ GateIdle /\ putQueue = << >>
  /\ store = Unset

\* ------------------------------------------------- effective duration (C13)
\* Durations of the model are counted in ticks; on-screen times are counted
\* in SPEED_NUM-ths of a tick, so that a duration divided by the playback
\* speed SPEED_NUM / SPEED_DEN = 1.5 is a whole number.
TicksPerSecond == 60
SPEED_NUM == 3
SPEED_DEN == 2
FPS == 30
CHAPTER_TITLE_DURATION == 1
DEFAULT_DURATION == 5

OnScreenPerSecond == TicksPerSecond * SPEED_NUM
OnScreenPerFrame == OnScreenPerSecond \div FPS

CeilDiv(a, b) == (a + b - 1) \div b

\* scene.actualDuration || scene.durationInSeconds || 5, in ticks
RawDuration(scene) ==
  IF IsSet(scene.actualDuration) /\ scene.actualDuration[1] # 0
    THEN scene.actualDuration[1]
    ELSE IF scene.durationInSeconds # 0
      THEN scene.durationInSeconds * TicksPerSecond
      ELSE DEFAULT_DURATION * TicksPerSecond

\* rawDuration / playbackSpeed
EffectiveDuration(scene) == RawDuration(scene) * SPEED_DEN

\* Player: the buffer is played at playbackRate 1.5 and onended moves on.
PlayerOnScreen(scene) == scene.audioBuffer[1].duration * SPEED_DEN

\* Composition: durationFrames = Math.ceil(effectiveDuration * fps)
DurationFrames(scene) == CeilDiv(EffectiveDuration(scene) * FPS, OnScreenPerSecond)
CompositionOnScreen(scene) == DurationFrames(scene) * OnScreenPerFrame

\* Root: what one scene adds to totalDurationInSeconds.
RootOnScreen(scene, index) ==
  EffectiveDuration(scene)
    + (IF index > 0 THEN CHAPTER_TITLE_DURATION * OnScreenPerSecond ELSE 0)

\* What each consumer gives a scene beyond d / 1.5 (the composition: beyond
\* d / 1.5 rounded up to a whole frame).
Excess(scenes, i) ==
  LET law == scenes[i].actualDuration[1] * SPEED_DEN
  IN [player |-> PlayerOnScreen(scenes[i]) - law,
      composition |-> CompositionOnScreen(scenes[i])
                        - CeilDiv(law, OnScreenPerFrame) * OnScreenPerFrame,
      root |-> RootOnScreen(scenes[i], i) - law]

Timed(scenes) == {i \in DOMAIN scenes : IsSet(scenes[i].audioBuffer)}

\* C13: for the scenes with an actual duration d, every consumer shows a
\* scene for d / 1.5 plus a buffer that is fixed (the same for every scene of
\* that consumer) and that is the same in every consumer that has one.
C13_SameEffectiveDuration ==
  \A i \in Timed(completedScenes) : \A j \in Timed(completedScenes) :
    \A c \in {"player", "composition", "root"} :
      \A c2 \in {"player", "composition", "root"} :
        /\ Excess(completedScenes, i)[c] = Excess(completedScenes, j)[c]
        /\ (Excess(completedScenes, i)[c] # 0 /\ Excess(completedScenes, j)[c2] # 0)
             => Excess(completedScenes, i)[c] = Excess(completedScenes, j)[c2]

\* ------------------------------------------------- image styles (C14)
\* imageLoop: the style named in the status line of a scene.
styleName(actualIndex, totalScenes) ==
  IF actualIndex = 0 \/ actualIndex = totalScenes - 1 THEN "Pop Art" ELSE "Infographic"

\* generateImageForScene: the style of the prompt it sends.
finalPrompt(sceneIndex, totalScenes) ==
  LET isLast == sceneIndex = totalScenes - 1
  IN IF isLast THEN "Pop Art" ELSE "Infographic"

\* The scenes whose image has been requested.
ImageRequested == {i \in DOMAIN ops["image"] : ops["image"][i].pc # "idle"}

\* C14: the image of a scene is requested in the high-impact style exactly
\* when the scene is the first or the last, and in the style the scheduler
\* reports for it.
C14_StyleByPosition ==
  \A i \in ImageRequested :
    /\ finalPrompt(i, Length(results)) = "Pop Art" <=> (i = 0 \/ i = Length(results) - 1)
    /\ finalPrompt(i, Length(results)) = styleName(i, Length(results))

\* ------------------------------------------------- the credential (C18)
\* C18: with no credential configured no remote request is ever issued, the
\* script request fails with the missing-credential message, which is shown
\* with the application back at its start, and no generation run, hence no
\* per-scene attempt or retry, ever starts.
C18_MissingCredentialIsFatal ==
  ~client.apiKey =>
    /\ ~client.requested
    /\ appState \in {"IDLE", "GENERATING_SCRIPT"}
    /\ IsSet(error) => error \in {Some("no topic"), Some("API Key is missing")}
    /\ mainPc = "unmounted" /\ ~hasRun
    /\ \A p \in Pipelines : ops[p] = << >>
    /\ script = << >> /\ completedScenes = << >>

\* Without a credential the start was asked for and the missing-credential
\* message is shown.
C18_Witness ==
  /\ ~client.apiKey
  /\ appState = "IDLE"
  /\ error = Some("API Key is missing")

\* ------------------------------------------------- speech text (C15)
\* C15 as the specification words it: no character of the text submitted to
\* the speech model is outside the whitelist.
C15_SubmittedTextWhitelisted ==
  call.op = "speech" => \A k \in DOMAIN call.output : Whitelisted(call.output[k])

\* C15: the text submitted is the narration, character by character, with
\* every character outside the whitelist replaced by a blank, followed by the
\* pause marker; the marker's two brackets are the only characters of the
\* submitted text outside the whitelist.
C15_NarrationWhitelisted ==
  call.op = "speech" =>
    LET n == Len(call.input)
    IN /\ Len(call.output) = n + Len(PauseSuffix)
       /\ SubSeq(call.output, n + 1, Len(call.output)) = PauseSuffix
       /\ \A k \in 1..n :
            /\ Whitelisted(call.output[k])
            /\ call.output[k] = (IF Whitelisted(call.input[k]) THEN call.input[k] ELSE " ")
       /\ \A k \in DOMAIN call.output :
            ~Whitelisted(call.output[k]) => (k > n /\ call.output[k] \in {"[", "]"})

\* A narration with a CJK character, a stray symbol and a bracket was cleaned.
C15_Witness ==
  /\ call.op = "speech"
  /\ call.input = <<"cjk", "#", "[">>
  /\ SubSeq(call.output, 1, 3) = <<"cjk", " ", " ">>

\* ------------------------------------------------- script extraction (C16, C17)
\* Leading prose: words, blanks and braces.
IsProse(text) == \A k \in DOMAIN text : text[k] \in {"p", " ", "{", "}"}

\* C16: a response made of leading prose and a well-formed JSON object, bare
\* or fenced, gives what the object alone gives.
C16_ProseThenObject ==
  call.op = "script" =>
    \A J \in JsonObjects : \A k \in 0..Len(call.input) :
      LET P == SubSeq(call.input, 1, k)
      IN (/\ IsProse(P)
          /\ \/ call.input = P \o J
             \/ call.input = P \o <<"fence-json">> \o J \o <<"fence">>)
           => call.output = generateScript(J)

\* The braces of a text match: none closes before it opens, none stays open.
RECURSIVE Depth(_)
Depth(text) ==
  IF text = << >> THEN 0
  ELSE Depth(SubSeq(text, 1, Len(text) - 1))
         + (IF text[Len(text)] = "{" THEN 1 ELSE IF text[Len(text)] = "}" THEN -1 ELSE 0)

Balanced(text) ==
  /\ Depth(text) = 0
  /\ \A k \in DOMAIN text : Depth(SubSeq(text, 1, k)) >= 0

ContainsObject(text) ==
  \E i \in DOMAIN text : \E j \in DOMAIN text :
    i <= j /\ WithoutBlanks(SubSeq(text, i, j)) \in JsonObjects

\* C17: generateScript throws when the response is empty, holds no JSON
\* object, has unbalanced braces, or its extracted span does not parse.
C17_MalformedResponseThrows ==
  call.op = "script" =>
    ((\/ call.input = << >>
      \/ ~ContainsObject(call.input)
      \/ ~Balanced(call.input)
      \/ JsonParse(ExtractedSpan(call.input)).kind = "error")
       => call.output.kind = "error")

\* ------------------------------------------------- first-attempt success (C19)
\* Both operations of scene i succeeded on their first attempt.
FirstAttemptSuccess(i) ==
  /\ ops["image"][i] = [pc |-> "ok", attempts |-> 1]
  /\ ops["audio"][i] = [pc |-> "ok", attempts |-> 1]

\* C19: once both pipelines have finished, a scene whose image call and
\* speech call (fetch and decode included) succeeded on the first attempt has
\* the image that call gave, the buffer decoded from that speech and the
\* buffer's duration as its actual duration, in the generator's list and in
\* the list handed over, whatever became of the other scenes.
C19_FirstAttemptSceneComplete ==
  mainPc \in {"fatal", "finalSave", "handoff", "complete"} =>
    \A i \in DOMAIN results :
      FirstAttemptSuccess(i) =>
        \A scenes \in {results} \cup (IF mainPc = "complete" THEN {completedScenes} ELSE {}) :
          /\ scenes[i].imageData = Some(ImageOf(i, 1))
          /\ scenes[i].audioBuffer = Some(DecodeAudio(SpeechOf(i, 1)))
          /\ scenes[i].actualDuration = Some(scenes[i].audioBuffer[1].duration)

\* The list was handed over with a scene that succeeded at once in both
\* pipelines, after an earlier scene of the same batch failed for good in both.
C19_Witness ==
  /\ mainPc = "complete"
  /\ \E i \in DOMAIN completedScenes : \E j \in DOMAIN completedScenes :
       /\ j < i
       /\ FirstAttemptSuccess(i)
       /\ IsSet(completedScenes[i].imageData)
       /\ IsSet(completedScenes[i].actualDuration)
       /\ ops["image"][j].pc = "fail" /\ ops["audio"][j].pc = "fail"

\* ------------------------------------------------- the batch partition (C20)
\* ceil(N / BATCH_SIZE)
BatchCount(total) == (total + BATCH_SIZE - 1) \div BATCH_SIZE

\* The scenes a pipeline has started.
Started(pops) == {k \in DOMAIN pops : pops[k].pc # "idle"}

\* The scenes a pipeline starts in this step.
NewlyStarted(p) ==
  {k \in Started(ops'[p]) : ~hasRun \/ ops[p][k].pc = "idle"}

\* C20: in each pipeline over N scenes the loop index is a multiple of 3; a
\* running loop is in one of ceil(N/3) batches, which holds the 3 consecutive
\* indices from the loop index on, or the N - i that are left in the last
\* batch; a finished loop has run exactly ceil(N/3) batches; the scenes
\* started so far are those below the end of the current batch; and a step
\* that starts scenes starts a whole batch, 3 further on than the one before,
\* of scenes that were never started and lie above all that were.
C20_BatchPartition ==
  /\ [](hasRun =>
          \A p \in Pipelines :
            LET N == Length(results)
                i == loops[p].i
                batch == BatchIndices(i, N)
            IN /\ i % BATCH_SIZE = 0
               /\ loops[p].pc = "running" =>
                    /\ i \div BATCH_SIZE < BatchCount(N)
                    /\ batch = i..(IF i + BATCH_SIZE <= N THEN i + BATCH_SIZE - 1 ELSE N - 1)
                    /\ Cardinality(batch) = (IF i + BATCH_SIZE <= N THEN BATCH_SIZE ELSE N - i)
                    /\ Cardinality(batch) < BATCH_SIZE => i \div BATCH_SIZE = BatchCount(N) - 1
               /\ loops[p].pc = "done" => i = BATCH_SIZE * BatchCount(N)
               /\ Started(ops[p]) = {k \in 0..(N - 1) : k < i + BATCH_SIZE})
  /\ [][hasRun' =>
          \A p \in Pipelines :
            NewlyStarted(p) # {} =>
              /\ NewlyStarted(p) = BatchIndices(loops'[p].i, Length(results'))
              /\ loops'[p].i = (IF hasRun THEN loops[p].i + BATCH_SIZE ELSE 0)
              /\ hasRun => \A k \in NewlyStarted(p) : \A j \in Started(ops[p]) : j < k]_vars

\* Seven scenes: a pipeline is in its third batch, which holds scene 6 alone,
\* after two batches of three.
C20_Witness ==
  /\ hasRun
  /\ Length(results) = 7
  /\ \E p \in Pipelines :
       /\ loops[p] = [pc |-> "running", i |-> 6]
       /\ BatchIndices(loops[p].i, Length(results)) = {6}
       /\ \A k \in 0..5 : ops[p][k].pc \in Settled
       /\ ops[p][6].pc \in InAttempt

\* ------------------------------------------------- retryOperation (C21)
RECURSIVE Pow2(_)
Pow2(n) == IF n = 0 THEN 1 ELSE 2 * Pow2(n - 1)

\* The invocations of fn that resolve.
Successes(outcomes) == {k \in DOMAIN outcomes : outcomes[k].ok}

\* C21: retryOperation(fn, r, d) invokes fn at most r + 1 times; with a
\* success among those invocations it stops at the first one and returns its
\* value; with none it invokes fn r + 1 times and throws the error of the last
\* invocation; before the k-th retry it waits d * 2^(k - 1).
C21_RetryOperation ==
  call.op = "retry" =>
    LET r == call.input.retries
        d == call.input.delay
        outcomes == call.input.outcomes
        out == call.output
    IN /\ out.calls <= r + 1
       /\ Successes(outcomes) # {} =>
            /\ out.kind = "return"
            /\ out.calls \in Successes(outcomes)
            /\ \A k \in Successes(outcomes) : out.calls <= k
            /\ out.value = outcomes[out.calls].value
       /\ Successes(outcomes) = {} =>
            /\ out.kind = "throw"
            /\ out.calls = r + 1
            /\ out.value = outcomes[r + 1].value
       /\ Len(out.waits) = out.calls - 1
       /\ \A k \in DOMAIN out.waits : out.waits[k] = d * Pow2(k - 1)

\* A budget of two retries, used up: the third invocation succeeded after two
\* failures with another error value, and the two delays were waited.
C21_Witness ==
  /\ call.op = "retry"
  /\ call.input.retries = 2
  /\ call.input.delay = 1000
  /\ call.output.calls = 3
  /\ call.output.kind = "return"
  /\ call.output.waits = <<1000, 2000>>
  /\ call.input.outcomes[1].value # call.output.value

\* ------------------------------------------------- the timeline length (C22)
\* The composition's per-scene buffer, 0.2 = 1 / BUFFER_DEN seconds, its
\* chapter title of fps * 1.5 = fps * TITLE_NUM / TITLE_DEN frames, and the
\* frames the root adds to its total.
BUFFER_DEN == 5
TITLE_NUM == 3
TITLE_DEN == 2
ROOT_BUFFER_FRAMES == 30

\* const CHAPTER_TITLE_DURATION = fps * 1.5, in frames
ChapterTitleFrames == (FPS * TITLE_NUM) \div TITLE_DEN

\* durationFrames = Math.ceil((effectiveDuration + 0.2) * fps)
BufferedDurationFrames(scene) ==
  CeilDiv(EffectiveDuration(scene) + OnScreenPerSecond \div BUFFER_DEN, OnScreenPerFrame)

\* frameCounter after the first n scenes of sceneTimings: a scene after the
\* first starts a chapter title later, and every scene lasts durationFrames.
RECURSIVE FrameCounter(_, _)
FrameCounter(scenes, n) ==
  IF n = 0 THEN 0
  ELSE FrameCounter(scenes, n - 1)
         + (IF n - 1 > 0 THEN ChapterTitleFrames ELSE 0)
         + BufferedDurationFrames(scenes[n - 1])

\* The end frame of the last scene's sequence.
LastSequenceEnd(scenes) == FrameCounter(scenes, Length(scenes))

\* totalDurationInSeconds of the root: scenes.reduce(...)
RECURSIVE TotalDuration(_, _)
TotalDuration(scenes, n) ==
  IF n = 0 THEN 0
  ELSE TotalDuration(scenes, n - 1) + RootOnScreen(scenes[n - 1], n - 1)

\* durationInFrames = Math.max(1, Math.ceil(totalDurationInSeconds * fps) + 30)
RootDurationInFrames(scenes) ==
  LET frames == CeilDiv(TotalDuration(scenes, Length(scenes)), OnScreenPerFrame)
                  + ROOT_BUFFER_FRAMES
  IN IF frames > 1 THEN frames ELSE 1

\* C22: for every scene list the length the root precomputes is at least the
\* end frame of the last scene sequence the composition lays out.
C22_TimelineCoversComposition ==
  \A scenes \in SceneLists : RootDurationInFrames(scenes) >= LastSequenceEnd(scenes)

\* ------------------------------------------------- scenes without audio (C23)
MIN_FALLBACK_MS == 3000
MS_PER_CHARACTER == 200
MsPerSecond == 1000

\* scene.narration.length: the texts of the model have two characters.
NarrationLength(text) == IF text \in Texts THEN 2 ELSE 0

\* A time in milliseconds, in on-screen units.
MsToOnScreen(ms) == (ms * OnScreenPerSecond) \div MsPerSecond

\* Player, for a scene without a buffer: the fallback timer
\* Math.max(3000, scene.narration.length * 200), after which handleNext runs.
PlayerFallbackOnScreen(scene) ==
  LET durationMs == IF NarrationLength(scene.narration) * MS_PER_CHARACTER > MIN_FALLBACK_MS
                      THEN NarrationLength(scene.narration) * MS_PER_CHARACTER
                      ELSE MIN_FALLBACK_MS
  IN MsToOnScreen(durationMs)

\* The hint if present, otherwise the default, divided by the playback speed.
HintOnScreen(scene) ==
  (IF scene.durationInSeconds # 0 THEN scene.durationInSeconds ELSE DEFAULT_DURATION)
    * TicksPerSecond * SPEED_DEN

Untimed(scenes) == {i \in DOMAIN scenes : ~IsSet(scenes[i].actualDuration)}

\* C23: a scene without an actual duration is shown by the player, by the
\* composition and by the root for the hint (or the default of 5 seconds)
\* divided by 1.5; a scene with an actual duration is shown for that one.
C23_SameRawDuration ==
  /\ \A i \in Untimed(completedScenes) :
       /\ EffectiveDuration(completedScenes[i]) = HintOnScreen(completedScenes[i])
       /\ CompositionOnScreen(completedScenes[i])
            = CeilDiv(HintOnScreen(completedScenes[i]), OnScreenPerFrame) * OnScreenPerFrame
       /\ PlayerFallbackOnScreen(completedScenes[i]) = HintOnScreen(completedScenes[i])
  /\ \A i \in Timed(completedScenes) :
       /\ EffectiveDuration(completedScenes[i]) = completedScenes[i].actualDuration[1] * SPEED_DEN
       /\ PlayerOnScreen(completedScenes[i]) = completedScenes[i].actualDuration[1] * SPEED_DEN

\* ------------------------------------------------- the progress counters (C24)
\* C24: at every point of a run the images-completed counter is the number of
\* scenes with an image, the audio-completed counter is the number of scenes
\* with decoded audio, and neither exceeds the number of scenes.
C24_CountersCountAssets ==
  hasRun =>
    /\ imgCount = validImages(results)
    /\ audioCount = validAudio(results)
    /\ imgCount <= Length(results)
    /\ audioCount <= Length(results)

\* ------------------------------------------------- the stored project (C25)
\* The project a save queues in this step, if it queues one.
Saved ==
  IF Len(putQueue') = Len(putQueue) + 1 /\ putQueue'[Len(putQueue')].by \in {"inc", "final"}
    THEN Some(putQueue'[Len(putQueue')].value)
    ELSE Unset

StoredFields == {"id", "visual_description", "narration", "durationInSeconds",
                 "imageData", "audioData", "actualDuration"}

\* C25: a save queues the topic and the scenes in their order with every
\* field but the decoded buffer, and its commit stores just that; the load
\* returns what the store holds, so the saved project after a save and
\* nothing after a clear; a clear empties the store; and a restore enters
\* playback with the stored topic and the stored scenes, to which it adds a
\* buffer decoded from the stored encoded audio for exactly the scenes that
\* have some.
C25_SaveLoadRestore ==
  [][/\ IsSet(Saved) =>
          /\ Saved[1].topic = topic
          /\ DOMAIN Saved[1].scenes = DOMAIN results
          /\ \A i \in DOMAIN results :
               /\ DOMAIN Saved[1].scenes[i] = StoredFields
               /\ \A f \in StoredFields : Saved[1].scenes[i][f] = results[i][f]
     /\ store' # store =>
          /\ putQueue # << >>
          /\ putQueue' = Tail(putQueue)
          /\ store' = (IF Head(putQueue).by = "clear" THEN Unset ELSE Some(Head(putQueue).value))
     /\ (load.pc = "get" /\ load'.pc \in {"decode", "done"}) =>
          /\ load'.cached = store
          /\ store' = store
     /\ (load.pc = "decode" /\ load'.pc = "restored") =>
          /\ appState' = "PLAYING"
          /\ topic' = load.cached[1].topic
          /\ DOMAIN completedScenes' = DOMAIN load.cached[1].scenes
          /\ \A i \in DOMAIN completedScenes' :
               LET stored == load.cached[1].scenes[i]
                   scene == completedScenes'[i]
               IN /\ \A f \in StoredFields : scene[f] = stored[f]
                  /\ IsSet(scene.audioBuffer) <=> IsSet(stored.audioData)
                  /\ IsSet(stored.audioData) =>
                       scene.audioBuffer = Some(DecodeAudio(stored.audioData[1]))]_vars

\* The project this session's run saved was loaded and restored into the
\* player, its scene with a buffer decoded again.
C25_Witness ==
  /\ load.pc = "restored"
  /\ hasRun
  /\ appState = "PLAYING"
  /\ mainPc = "pipelines"
  /\ load.cached = Some(Snapshot(results, topic))
  /\ \E i \in DOMAIN completedScenes :
       /\ IsSet(completedScenes[i].audioBuffer)
       /\ completedScenes[i].audioBuffer = results[i].audioBuffer

\* ------------------------------------------------- exported archives (C26)
\* C26: in the archive of either export operation, every media path the
\* manifest gives for a scene names a file of the archive, numbered id + 1.
C26_ManifestPathsPresent ==
  call.op \in {"exportRemotionWithAssets", "downloadAssetsAsZip"} =>
    \A i \in DOMAIN call.input : \A k \in {"imageFile", "audioFile"} :
      LET path == call.output.manifest[i][k]
      IN IsSet(path) =>
           /\ path[1].name = call.input[i].id + 1
           /\ ArchiveFile(path[1].dir, path[1].name, path[1].ext) \in call.output.files

\* ------------------------------------------------- the player's index (C27)
\* C27: in the player the scene index is one of 0..N-1, and a step moves it
\* forward by one scene at most.
C27_IndexInRange ==
  /\ [](appState = "PLAYING" /\ Length(completedScenes) > 0 =>
          player.currentIndex \in 0..(Length(completedScenes) - 1))
  /\ [][player'.currentIndex <= player.currentIndex + 1]_vars

\* ------------------------------------------------- appState's transitions (C28)
AllowedTransitions ==
  { <<"IDLE", "GENERATING_SCRIPT">>, <<"GENERATING_SCRIPT", "REVIEW_SCRIPT">>,
    <<"GENERATING_SCRIPT", "IDLE">>, <<"REVIEW_SCRIPT", "GENERATING_ASSETS">>,
    <<"GENERATING_ASSETS", "PLAYING">>, <<"IDLE", "PLAYING">>,
    <<"PLAYING", "IDLE">> }

\* C28: appState changes along the seven listed transitions only, and the
\* restore of the cached project acts on an idle application only.
C28_OnlyListedTransitions ==
  /\ [][appState' # appState => <<appState, appState'>> \in AllowedTransitions]_vars
  /\ [][load.pc = "decode" /\ load'.pc = "restored" => appState = "IDLE"]_vars

\* ------------------------------------------------- no save after the restart (C29)
\* C29: once handleRestart has cleared the store, the store stays empty: no
\* save of the finished run is written afterwards.
C29_StoreStaysCleared ==
  restart = "cleared" => store = Unset

\* ------------------------------------------------- one run for one mount (C30)
\* C30: an effect run that finds hasRun set leaves the run as it is (the
\* pipeline starts once); onComplete is invoked only when both loops are done
\* and the final save has settled, and never a second time.
C30_StartsOnceCompletesOnce ==
  /\ [][hasRun /\ effectRuns' # effectRuns => UNCHANGED genVars]_vars
  /\ [][hasRun => hasRun']_vars
  /\ [][mainPc # "complete" /\ mainPc' = "complete" =>
          /\ \A p \in Pipelines : loops[p].pc = "done"
          /\ finalSave \in {"saved", "failed"}]_vars
  /\ [][mainPc = "complete" => mainPc' = "complete"]_vars

C30_Witness ==
  /\ effectRuns >= 2
  /\ mainPc = "complete"
  /\ appState = "PLAYING"

====
